---- MODULE Spec2Model ----
(***************************************************************************)
(* Model of the LoRA dashboard's client-side core:                         *)
(*   - FrontendLoggerService (frontend-logger.service.ts): the in-memory   *)
(*     log, its localStorage mirror and the rotated text buffer;           *)
(*   - ApiService (api.service.ts): the dual-protocol adapter, one         *)
(*     operation at a time, with the events of the operation in order.     *)
(* Strings the code inspects character by character (object keys) are      *)
(* sequences of one-character strings; other strings are TLA+ strings.     *)
(* JSON values are tagged records: [t |-> "str" | "obj" | "arr" | ...].    *)
(***************************************************************************)
EXTENDS Integers, Sequences, FiniteSets, TLC

VARIABLES
  logger,    \* FrontendLoggerService fields, localStorage keys, downloads, console
  now,       \* the clock read by new Date(): one tick per logger call
  horizon,   \* the clock value at which the modelled run stops
  payload,   \* the payload a direct caller of the logger passes (data / context)
  errArg,    \* the error a direct caller of logError passes
  browser,   \* how the browser's storage and DOM primitives behave in this run
  lastCall,  \* the last logging call: its name, whether it threw, its result
  history,   \* timestamps of the entries hydrated or appended since the log was
             \* last cleared (history variable)
  sinceLimit, \* entries appended since maxLogs was last set or the log last cleared
  env,       \* environment.* and the stored bearer token, as ApiService reads them
  call,      \* the adapter operation under way: its name, argument and position
  trace,     \* what the operation did so far: log entries written, network calls
             \* issued, replies received, results delivered, in order
  process,   \* the job the operation is about: its id and its status
  view,      \* ProcessesTabComponent: its fields, its interval subscriptions and
             \* the calls it has issued
  delivery,  \* a file delivery under way: the step reached and what happened
  jobs       \* the job table of the mock backend

loggerVars ==
  <<logger, now, horizon, payload, errArg, browser, lastCall, history, sinceLimit>>
apiVars == <<env, call, trace, process>>
uiVars == <<view, delivery, jobs>>
vars == <<loggerVars, apiVars, uiVars>>

\* a part of the program that a run does not use
Unused == [absent |-> TRUE]

----------------------------------------------------------------------------
(* Bounds of the model. Limits and sizes of the program are scaled down:   *)
(* the code's 5000 / 1000 / 10000 entries become 2 / 1 / 3.                *)

MaxClock == 4           \* logger calls in one behaviour of SpecLogger
DefaultMaxLogs == 2     \* maxLogs = 5000, scaled
NormalMaxLogs == 1      \* setMaxLogs(1000), scaled
FullMaxLogs == 3        \* setMaxLogs(10000), scaled
MaxStored == 3          \* entries found in localStorage at construction
MaxDepth == 2           \* nesting depth of the payloads passed to the logger
MaxBufferSize == 6      \* maxBufferSize = 50000 characters, scaled
DataShown == 2          \* dataStr.substring(0, 200), scaled
TruncateAt == 500       \* value.length > 500
LongLen == 501          \* length of the long string among the payload leaves

----------------------------------------------------------------------------
(* Characters and keys                                                     *)

UpperCase == <<"A","B","C","D","E","F","G","H","I","J","K","L","M",
               "N","O","P","Q","R","S","T","U","V","W","X","Y","Z">>
LowerCase == <<"a","b","c","d","e","f","g","h","i","j","k","l","m",
               "n","o","p","q","r","s","t","u","v","w","x","y","z">>

\* String.prototype.toLowerCase, on one character and on a string
LowerChar(c) ==
  IF \E i \in DOMAIN UpperCase : UpperCase[i] = c
  THEN LowerCase[CHOOSE i \in DOMAIN UpperCase : UpperCase[i] = c]
  ELSE c

toLowerCase(s) == [i \in DOMAIN s |-> LowerChar(s[i])]

\* String.prototype.includes
includes(s, sub) ==
  \E i \in 0..(Len(s) - Len(sub)) : SubSeq(s, i + 1, i + Len(sub)) = sub

T_password == <<"p","a","s","s","w","o","r","d">>
T_token    == <<"t","o","k","e","n">>
T_key      == <<"k","e","y">>
T_secret   == <<"s","e","c","r","e","t">>
T_auth     == <<"a","u","t","h">>

\* The keys that occur in the payloads of the model
K_password      == T_password
K_apiKey        == <<"a","p","i","K","e","y">>
K_Authorization == <<"A","u","t","h","o","r","i","z","a","t","i","o","n">>
K_name          == <<"n","a","m","e">>
K_error         == <<"e","r","r","o","r">>
K_original      == <<"o","r","i","g","i","n","a","l">>
K_message       == <<"m","e","s","s","a","g","e">>
K_stack         == <<"s","t","a","c","k">>
K_operation     == <<"o","p","e","r","a","t","i","o","n">>
K_files         == <<"f","i","l","e","s">>
K_size          == <<"s","i","z","e">>
K_type          == <<"t","y","p","e">>
K_lastModified  == <<"l","a","s","t","M","o","d","i","f","i","e","d">>
K_endpoint      == <<"e","n","d","p","o","i","n","t">>
K_test          == <<"t","e","s","t">>

PayloadKeys == {K_password, K_apiKey, K_Authorization, K_name}

----------------------------------------------------------------------------
(* JSON values                                                             *)

Str(s, n)  == [t |-> "str", s |-> s, n |-> n, cut |-> FALSE]
Obj(kv)    == [t |-> "obj", kv |-> kv]
Arr(items) == [t |-> "arr", items |-> items]
Null       == [t |-> "null"]
Undefined  == [t |-> "undefined"]
\* an object that refers to itself: JSON.stringify throws on it
Cyclic     == [t |-> "cyclic"]
\* an Error instance (serializeError tests `instanceof Error`)
ErrorObj(m) == [t |-> "Error", message |-> m]

HiddenMarker == Str("***HIDDEN***", 12)
SecretLeaf   == Str("hunter2", 7)
PlainLeaf    == Str("demo", 4)
LongLeaf     == Str("long", LongLen)

\* `!data` and `if (x)` of JavaScript
Truthy(v) ==
  CASE v.t \in {"null", "undefined"} -> FALSE
    [] v.t = "str" -> v.n > 0
    [] OTHER -> TRUE

RECURSIVE Serializable(_)
Serializable(v) ==
  CASE v.t = "cyclic" -> FALSE
    [] v.t = "obj" -> \A i \in DOMAIN v.kv : Serializable(v.kv[i][2])
    [] v.t = "arr" -> \A i \in DOMAIN v.items : Serializable(v.items[i])
    [] OTHER -> TRUE

----------------------------------------------------------------------------
(* FrontendLoggerService: sanitizeData and serializeError                  *)

Max(a, b) == IF a > b THEN a ELSE b
Min(a, b) == IF a < b THEN a ELSE b

\* the test of the replacer in sanitizeData: the four terms the code lists
IsSensitiveKey(key) ==
  \/ includes(toLowerCase(key), T_password)
  \/ includes(toLowerCase(key), T_token)
  \/ includes(toLowerCase(key), T_key)
  \/ includes(toLowerCase(key), T_secret)

\* `${value.substring(0, 500)}... [TRUNCATED - ${value.length} chars]`
Truncated(v) == [t |-> "str", s |-> v.s, n |-> TruncateAt + 30, cut |-> TRUE]

\* JSON.parse(JSON.stringify(value, replacer)) below the key `key`: the replacer
\* runs on every key of every object and array, the root under the key "".
RECURSIVE Replace(_, _, _)
Replace(key, value, truncate) ==
  IF IsSensitiveKey(key) THEN HiddenMarker
  ELSE IF truncate /\ value.t = "str" /\ value.n > TruncateAt THEN Truncated(value)
  ELSE CASE value.t = "obj" ->
              LET done == [i \in DOMAIN value.kv |->
                             <<value.kv[i][1],
                               Replace(value.kv[i][1], value.kv[i][2], truncate)>>]
              IN  Obj(SelectSeq(done, LAMBDA p : p[2].t # "undefined"))
         [] value.t = "arr" ->
              Arr([i \in DOMAIN value.items |->
                     LET r == Replace(<<>>, value.items[i], truncate)
                     IN  IF r.t = "undefined" THEN Null ELSE r])
         [] value.t = "Error" -> Obj(<<>>)
         [] OTHER -> value

\* String(data) of a value JSON.stringify rejects
StringOf(v) == Str("[object Object]", 15)

SanitizeFailure(data) ==
  Obj(<< <<K_error, Str("Failed to sanitize data", 23)>>,
         <<K_original, StringOf(data)>> >>)

sanitizeData(data, truncate) ==
  IF ~Truthy(data) THEN data
  ELSE IF ~Serializable(data) THEN SanitizeFailure(data)
  ELSE Replace(<<>>, data, truncate)

serializeError(error) ==
  IF error.t = "Error"
  THEN Obj(<< <<K_name, Str("Error", 5)>>,
              <<K_message, Str(error.message, 4)>>,
              <<K_stack, Str("stack", 5)>> >>)
  ELSE error

----------------------------------------------------------------------------
(* FrontendLoggerService: the log, its mirror and the text buffer          *)

Absent == "<undefined>"
logToConsole == TRUE
logToStorage == TRUE

LogEntry(ts, type, level, requestId, endpoint, method, data, error, duration) ==
  [timestamp |-> ts, type |-> type, level |-> level, requestId |-> requestId,
   endpoint |-> endpoint, method |-> method, data |-> data, error |-> error,
   duration |-> duration]

\* Array.prototype.slice(-n): the last n elements; slice(-0) is slice(0)
sliceLastKeepsOldest(s, n) == SubSeq(s, 1, Min(n, Len(s)))
sliceLast(s, n) ==
  IF n = 0 THEN s ELSE SubSeq(s, Max(Len(s) - n, 0) + 1, Len(s))

\* what localStorage holds under storageKey
StoredMissing  == [k |-> "missing"]
StoredCorrupt  == [k |-> "corrupt"]
StoredJson(v)  == [k |-> "json", v |-> v]
\* valid JSON that is no array
StoredNotArray == [k |-> "notArray"]

\* the results of the browser's primitives:
\* save: localStorage.setItem(storageKey, ..) succeeds; text: setItem of the
\* text buffer succeeds; dom: the anchor download of a text file succeeds
IOChoices ==
  { [save |-> TRUE,  text |-> TRUE,  dom |-> TRUE],
    [save |-> FALSE, text |-> TRUE,  dom |-> TRUE],
    [save |-> TRUE,  text |-> FALSE, dom |-> TRUE],
    [save |-> TRUE,  text |-> TRUE,  dom |-> FALSE] }
IOHealthy == [save |-> TRUE, text |-> TRUE, dom |-> TRUE]

saveLogsToStorage(L, io) ==
  IF io.save /\ \A i \in DOMAIN L.logs :
                  Serializable(L.logs[i].data) /\ Serializable(L.logs[i].error)
  THEN [L EXCEPT !.storedLogs = StoredJson(L.logs)]
  ELSE L

\* the length of JSON.stringify(v), in the scaled unit of the text buffer
RECURSIVE JsonLen(_)
RECURSIVE SumLen(_, _)
SumLen(seq, i) == IF i > Len(seq) THEN 0 ELSE JsonLen(seq[i]) + SumLen(seq, i + 1)
JsonLen(v) ==
  CASE v.t = "obj" -> 1 + SumLen([i \in DOMAIN v.kv |-> v.kv[i][2]], 1)
    [] v.t = "arr" -> 1 + SumLen(v.items, 1)
    [] v.t = "str" -> IF v.n > TruncateAt THEN 3 ELSE 1
    [] OTHER -> 1

\* formatLogEntryAsText: the line and its length
formatLogEntryAsText(e) ==
  [ts |-> e.timestamp,
   len |-> 1
           + (IF e.requestId \notin {Absent, ""} THEN 1 ELSE 0)
           + (IF e.method # Absent /\ e.endpoint # Absent THEN 1 ELSE 0)
           + (IF e.duration # <<>> /\ e.duration # <<0>> THEN 1 ELSE 0)
           + (IF Truthy(e.data) THEN Min(JsonLen(e.data), DataShown) ELSE 0)
           + (IF Truthy(e.error) THEN JsonLen(e.error) ELSE 0)]

RECURSIVE TextLen(_)
TextLen(buffer) ==
  IF buffer = <<>> THEN 0 ELSE Head(buffer).len + 1 + TextLen(Tail(buffer))

\* downloadTextBuffer: one more downloaded file
downloadTextBuffer(L, buffer) == [L EXCEPT !.files = Append(@, buffer)]

\* downloadCurrentTextBuffer; when the download throws the exception leaves it
downloadCurrentTextBuffer(L, io) ==
  IF L.textBuffer # <<>>
  THEN IF io.dom
       THEN [downloadTextBuffer(L, L.textBuffer) EXCEPT !.textBuffer = <<>>]
       ELSE L
  ELSE L

appendToFileBuffer(L, logLine, io) ==
  LET buffer  == Append(L.textBuffer, logLine)
      rotate  == TextLen(buffer) > MaxBufferSize
  IN  IF rotate /\ ~io.dom
      THEN downloadCurrentTextBuffer(L, io)
      ELSE LET L1 == IF rotate THEN downloadTextBuffer(L, buffer) ELSE L
               kept == IF rotate THEN <<logLine>> ELSE buffer
           IN  IF io.text
               THEN [L1 EXCEPT !.textBuffer = kept]
               ELSE downloadCurrentTextBuffer(L1, io)

appendToTextFile(L, logEntry, io) ==
  IF Serializable(logEntry.data) /\ Serializable(logEntry.error)
  THEN appendToFileBuffer(L, formatLogEntryAsText(logEntry), io)
  ELSE L

\* addLog throws when this.logs is not an array (push is not a function)
addLogThrows(L) == ~L.logsIsArray

addLog(L, logEntry, io) ==
  IF addLogThrows(L) THEN L
  ELSE LET pushed == Append(L.logs, logEntry)
           L1 == [L EXCEPT !.logs = IF Len(pushed) > L.maxLogs
                                    THEN sliceLast(pushed, L.maxLogs)
                                    ELSE pushed]
           L2 == IF logToStorage THEN saveLogsToStorage(L1, io) ELSE L1
       IN  IF L.logToFile THEN appendToTextFile(L2, logEntry, io) ELSE L2

----------------------------------------------------------------------------
(* FrontendLoggerService: the public operations, as functions of the       *)
(* service's state L, the clock t and the results io of the primitives     *)

\* Math.random().toString(36).substr(2, 8): two of the values it can return
RequestIds == {"k3x9q2ab", "z81mfp0c"}

logRequest(L, t, endpoint, method, data, requestId, generated, io) ==
  LET id == IF requestId \notin {Absent, ""} THEN requestId ELSE generated
      logEntry == LogEntry(t, "REQUEST", "INFO", id, endpoint, method,
                           sanitizeData(data, L.truncateData), Undefined, <<>>)
  IN  IF addLogThrows(L) THEN L
      ELSE [addLog(L, logEntry, io) EXCEPT
              !.console = IF logToConsole
                          THEN <<sanitizeData(data, L.truncateData)>> ELSE <<>>]

\* the id logRequest returns
logRequestId(requestId, generated) ==
  IF requestId \notin {Absent, ""} THEN requestId ELSE generated

logResponse(L, t, requestId, endpoint, data, status, duration, io) ==
  LET logEntry == LogEntry(t, "RESPONSE",
                           IF status # <<>> /\ status[1] >= 400 THEN "ERROR" ELSE "INFO",
                           requestId, endpoint, Absent,
                           sanitizeData(data, L.truncateData), Undefined, duration)
  IN  IF addLogThrows(L) THEN L
      ELSE [addLog(L, logEntry, io) EXCEPT
              !.console = IF logToConsole
                          THEN <<sanitizeData(data, L.truncateData)>> ELSE <<>>]

logError(L, t, requestId, endpoint, error, context, io) ==
  LET logEntry == LogEntry(t, "ERROR", "ERROR", requestId, endpoint, Absent,
                           IF Truthy(context)
                           THEN sanitizeData(context, L.truncateData) ELSE Undefined,
                           serializeError(error), <<>>)
  IN  IF addLogThrows(L) THEN L
      ELSE [addLog(L, logEntry, io) EXCEPT
              !.console = IF logToConsole THEN <<error, context>> ELSE <<>>]

\* files.map(f => ({name, size, type, lastModified}))
FileDescriptor(f) ==
  Obj(<< <<K_name, Str(f.name, 8)>>, <<K_size, Str("size", 1)>>,
         <<K_type, Str("image/png", 9)>>, <<K_lastModified, Str("time", 1)>> >>)

logFileOperation(L, t, operation, files, requestId, io) ==
  LET described == Arr([i \in DOMAIN files |-> FileDescriptor(files[i])])
      logEntry == LogEntry(t, "FILE_OPERATION", "INFO", requestId, Absent, Absent,
                           Obj(<< <<K_operation, Str(operation, 6)>>,
                                  <<K_files, described>> >>),
                           Undefined, <<>>)
  IN  IF addLogThrows(L) THEN L
      ELSE [addLog(L, logEntry, io) EXCEPT
              !.console = IF logToConsole THEN <<described>> ELSE <<>>]

getLogsByRequestId(L, requestId) ==
  SelectSeq(L.logs, LAMBDA log : log.requestId = requestId)

clearTextBuffer(L) == [L EXCEPT !.textBuffer = <<>>]

clearLogs(L, io) ==
  clearTextBuffer(
    saveLogsToStorage([L EXCEPT !.logs = <<>>, !.logsIsArray = TRUE], io))

setMaxLogs(L, max, io) ==
  LET L1 == [L EXCEPT !.maxLogs = max]
  IN  IF L.logsIsArray /\ Len(L.logs) > max
      THEN saveLogsToStorage([L1 EXCEPT !.logs = sliceLast(L.logs, max)], io)
      ELSE L1

\* constructor: the field initialisers, then loadLogsFromStorage
loadLogsFromStorage(L) ==
  CASE L.storedLogs.k = "missing" -> L
    [] L.storedLogs.k = "corrupt" -> [L EXCEPT !.logs = <<>>]
    [] L.storedLogs.k = "json"    -> [L EXCEPT !.logs = L.storedLogs.v]
    [] L.storedLogs.k = "notArray" -> [L EXCEPT !.logs = <<>>, !.logsIsArray = FALSE]

NewLogger(stored, textBuffer) ==
  loadLogsFromStorage(
    [logs |-> <<>>, logsIsArray |-> TRUE, maxLogs |-> DefaultMaxLogs,
     truncateData |-> FALSE, logToFile |-> TRUE,
     storedLogs |-> stored, textBuffer |-> textBuffer,
     files |-> <<>>, console |-> <<>>])

\* what the last logging call was and how it ended
Called(op, threw, returned) == [op |-> op, threw |-> threw, returned |-> returned]

----------------------------------------------------------------------------
(* ApiService: environment, headers, requests and errors                   *)

RunPodBaseUrl    == "https://api.runpod.ai/v2/rqwaizbda7ucsj"
LocalBaseUrl     == "http://localhost:8000/api"

\* mockMode, apiBaseUrl and runpodToken of `environment`; token is what
\* AuthService.getToken() returns (null when nothing is stored)
Environments ==
  [mockMode : BOOLEAN,
   apiBaseUrl : {RunPodBaseUrl, LocalBaseUrl},
   token : {Absent, "jwt-abc"},
   runpodToken : {Absent, "rpa_live"}]

isRunPodEndpoint(baseUrl) == includes(baseUrl, "api.runpod.ai")

\* `${value}` in a template literal
TemplateString(value) == IF value = Absent THEN "undefined" ELSE value
Bearer(value) == "Bearer " \o TemplateString(value)

Header(name, value) == <<name, value>>
HeaderNames(headers) == {h[1] : h \in headers}

getHeaders(e) ==
  {Header("Content-Type", "application/json")}
    \cup (IF e.token \notin {Absent, ""}
          THEN {Header("Authorization", Bearer(e.token))} ELSE {})
    \cup (IF e.runpodToken \notin {Absent, ""}
          THEN {Header("X-RunPod-Token", e.runpodToken)} ELSE {})

\* the headers of the queue protocol's POST calls
RunPodHeaders(e) ==
  {Header("Content-Type", "application/json"),
   Header("Authorization", Bearer(e.runpodToken))}

HttpRequest(method, url, headers, body) ==
  [method |-> method, url |-> url, headers |-> headers, body |-> body]

\* POST {baseUrl}/runsync with { input: { type, ... } }
Runsync(e, type) ==
  HttpRequest("POST", e.apiBaseUrl \o "/runsync", RunPodHeaders(e), type)

\* a queue protocol that submits every operation, the health check included,
\* as the custom health job
QueueRequestHealthJobFirst(op, id, e) == Runsync(e, "health")

\* the request of each operation on the queue protocol; for getHealth the
\* native probe
QueueRequest(op, id, e) ==
  CASE op = "getHealth" ->
         HttpRequest("GET", e.apiBaseUrl \o "/health",
                     {Header("Authorization", Bearer(e.runpodToken))}, Absent)
    [] op = "getProcesses"        -> Runsync(e, "processes")
    [] op = "startTraining"       -> Runsync(e, "train_with_yaml")
    [] op = "getDownloadUrl"      -> Runsync(e, "download")
    [] op = "cancelProcess"       -> Runsync(e, "cancel")
    [] op = "getProcess"          -> Runsync(e, "process_status")
    [] op = "getBulkDownloadUrls" -> Runsync(e, "bulk_download")

\* the custom health job getHealth submits when the native probe failed
HealthFallbackRequest(e) == Runsync(e, "health")

\* the request of each operation on the direct protocol
DirectRequest(op, id, e) ==
  CASE op = "getHealth" ->
         HttpRequest("GET", e.apiBaseUrl \o "/health", {}, Absent)
    [] op = "getProcesses" ->
         HttpRequest("GET", e.apiBaseUrl \o "/processes", getHeaders(e), Absent)
    [] op = "startTraining" ->
         HttpRequest("POST", e.apiBaseUrl \o "/train", getHeaders(e), "request")
    [] op = "getDownloadUrl" ->
         HttpRequest("GET", e.apiBaseUrl \o "/download/" \o id, getHeaders(e), Absent)
    [] op = "cancelProcess" ->
         HttpRequest("DELETE", e.apiBaseUrl \o "/processes/" \o id, getHeaders(e), Absent)
    [] op = "getProcess" ->
         HttpRequest("GET", e.apiBaseUrl \o "/processes/" \o id, getHeaders(e), Absent)
    [] op = "getBulkDownloadUrls" ->
         HttpRequest("POST", e.apiBaseUrl \o "/download/bulk", getHeaders(e), "request")

\* an HttpErrorResponse: bodyMessage is error.error.message, absent when the
\* body carries none; clientSide when error.error is an ErrorEvent
HttpErrorResponse(status, bodyMessage, clientSide) ==
  [t |-> "HttpErrorResponse", status |-> status, bodyMessage |-> bodyMessage,
   clientSide |-> clientSide, message |-> "Http failure response"]

HttpErrors ==
  {HttpErrorResponse(500, "server says no", FALSE),
   HttpErrorResponse(404, Absent, FALSE),
   HttpErrorResponse(0, "connection refused", TRUE)}

\* handleError: whatever came in, an Error with a message goes out
handleError(error) ==
  ErrorObj(IF error.t = "HttpErrorResponse" /\ error.bodyMessage \notin {Absent, ""}
           THEN error.bodyMessage
           ELSE IF error.message # "" THEN error.message
           ELSE "Error Code: undefined")

----------------------------------------------------------------------------
(* ApiService: responses and what each operation makes of them             *)

\* `a || b` on strings
Or(a, b) == IF a \notin {Absent, ""} THEN a ELSE b

Job(id, status, type, progress, error) ==
  [id |-> id, status |-> status, type |-> type, progress |-> progress, error |-> error]
NoJob == [absent |-> TRUE]
\* a job as a handler reports it, with every optional field left out
SparseJob == Job("7", Absent, Absent, Absent, Absent)

\* the JSON a queue handler answers; an absent list is the empty list
QueueData(status, error, message, processes, prc, url) ==
  [t |-> "body", output |-> NoJob, status |-> status, error |-> error,
   message |-> message, processes |-> processes, process |-> prc, url |-> url]
QueueSuccess ==
  QueueData("success", Absent, Absent, <<SparseJob>>, SparseJob, "https://storage/out.zip")
QueueProviderError == QueueData(Absent, "boom", Absent, <<>>, NoJob, Absent)
QueueEmpty == QueueData(Absent, Absent, Absent, <<>>, NoJob, Absent)
\* jobs reported without the status "success" beside them
QueueUnmarked == QueueData(Absent, Absent, Absent, <<SparseJob>>, SparseJob, Absent)
\* the envelope { id, status, output } of /runsync
Wrapped(data) == [QueueEmpty EXCEPT !.output = data, !.status = "COMPLETED"]

QueueResponses ==
  {Wrapped(QueueSuccess), Wrapped(QueueProviderError), Wrapped(QueueEmpty),
   Wrapped(QueueUnmarked), QueueProviderError}

\* response.output || response
Unwrap(response) == IF response.output # NoJob THEN response.output ELSE response

\* the ApiResponse body of the direct protocol
DirectBody(success, data, processes) ==
  [t |-> "body", success |-> success, data |-> data, processes |-> processes]
DirectData == [url |-> "https://storage/out.zip", process |-> SparseJob]
DirectResponses ==
  {DirectBody(TRUE, DirectData, <<SparseJob>>), DirectBody(TRUE, NoJob, <<>>)}

\* the result of a `map` callback: a value, or an exception
Returned(value) == [ok |-> TRUE, value |-> value]
Thrown(message) == [ok |-> FALSE, error |-> ErrorObj(message)]

\* getProcesses, queue protocol: one element of data.processes
normalizeListedProcess(p) ==
  Job(p.id, Or(p.status, "unknown"), Or(p.type, "training"), Or(p.progress, "0"),
      Or(p.error, Absent))

\* getProcess, queue protocol: data.process
normalizeProcess(p, id) ==
  Job(Or(p.id, id), Or(p.status, "pending"), Or(p.type, "training"),
      Or(p.progress, "0"), Or(p.error, Absent))

\* the `map` callbacks of the queue protocol
mapQueue(op, id, response) ==
  LET data == Unwrap(response)
  IN  CASE op = "getHealth" ->
             Returned([success |-> TRUE, data |-> response,
                       message |-> "RunPod endpoint health check"])
        [] op = "getProcesses" ->
             Returned(IF data.status = "success" /\ data.processes # <<>>
                      THEN [i \in DOMAIN data.processes |->
                              normalizeListedProcess(data.processes[i])]
                      ELSE data.processes)
        [] op = "startTraining" -> Returned(data)
        [] op = "getDownloadUrl" -> Returned(Or(data.url, ""))
        [] op = "cancelProcess" ->
             Returned([success |-> data.error \in {Absent, ""},
                       data |-> IF data.error \in {Absent, ""} THEN data ELSE NoJob,
                       message |-> Or(data.message,
                                      Or(data.error, "Process cancelled successfully")),
                       error |-> Or(data.error, Absent)])
        [] op = "getProcess" ->
             IF data.status = "success" /\ data.process # NoJob
             THEN Returned(normalizeProcess(data.process, id))
             ELSE IF data.error \notin {Absent, ""} THEN Thrown(data.error)
             ELSE Returned(Job(id, "pending", "training", "0", Absent))
        [] op = "getBulkDownloadUrls" ->
             IF data.error \notin {Absent, ""} THEN Thrown(data.error)
             ELSE Returned(data)

\* the `map` callback of the custom health job
mapHealthFallback(response) ==
  Returned([success |-> TRUE, data |-> Unwrap(response),
            message |-> "Custom health check via handler"])

\* the `map` callbacks of the direct protocol
mapDirect(op, id, response) ==
  CASE op = "getHealth"      -> Returned(response)
    [] op = "getProcesses"   -> Returned(response.processes)
    [] op = "startTraining"  -> Returned(response)
    [] op = "getDownloadUrl" ->
         Returned(IF response.data = NoJob THEN "" ELSE Or(response.data.url, ""))
    [] op = "cancelProcess"  -> Returned(response)
    [] op = "getProcess"     -> Returned(response.data)
    [] op = "getBulkDownloadUrls" -> Returned(response.data)

\* the operations that call logRequest, logResponse and logError themselves
AdapterLogged == {"getHealth", "getProcesses", "startTraining", "cancelProcess"}

LoggedMethod(op) ==
  CASE op = "startTraining" -> "POST"
    [] op = "cancelProcess" -> "DELETE"
    [] OTHER -> "GET"

LoggedPath(op, id) ==
  CASE op = "getHealth"     -> "/health"
    [] op = "getProcesses"  -> "/processes"
    [] op = "startTraining" -> "/train"
    [] op = "cancelProcess" -> "/processes/" \o id

\* the endpoint the operation passes to logResponse and logError
OutcomeEndpoint(op, id, e) ==
  e.apiBaseUrl \o (IF op = "cancelProcess" /\ isRunPodEndpoint(e.apiBaseUrl)
                   THEN "/cancel" ELSE LoggedPath(op, id))

----------------------------------------------------------------------------
(* LoggingInterceptor and the events of one operation                      *)

K_url == <<"u","r","l">>

skipPatterns ==
  <<"/assets/", ".json", ".txt", ".ico", "config.json", "environment", "/favicon">>

shouldSkipLogging(url) ==
  \E i \in DOMAIN skipPatterns : includes(url, skipPatterns[i])

\* new URL(url).pathname: what follows the origin
RECURSIVE PathFrom(_, _, _)
PathFrom(url, i, slashes) ==
  IF i > Len(url) THEN "/"
  ELSE IF SubSeq(url, i, i) = "/"
       THEN IF slashes = 2 THEN SubSeq(url, i, Len(url))
            ELSE PathFrom(url, i + 1, slashes + 1)
       ELSE PathFrom(url, i + 1, slashes)

extractEndpoint(url) == IF includes(url, "://") THEN PathFrom(url, 1, 0) ELSE url

\* the ids the interceptor's generateRequestId draws
InterceptorIds == {"q7w2e9r4t", "p0o9i8u7y"}

\* what the events of a step are written against: the logger L, the clock t,
\* the events ev, the timestamps ts of the entries and the last logging call
Begin == [L |-> logger, t |-> now, ev |-> <<>>, ts |-> <<>>, last |-> lastCall]

LogEvent(type, requestId, by) ==
  [k |-> "log", type |-> type, requestId |-> requestId, by |-> by]
NetEvent(req) == [k |-> "net", req |-> req]
ReplyEvent(ok, providerError, body) ==
  [k |-> "reply", ok |-> ok, providerError |-> providerError, body |-> body]
DeliverEvent(how, value) == [k |-> "deliver", how |-> how, value |-> value]

AfterLog(S, L1, op, returned, event) ==
  [L |-> L1, t |-> S.t + 1,
   ev |-> IF addLogThrows(S.L) THEN S.ev ELSE Append(S.ev, event),
   ts |-> IF addLogThrows(S.L) THEN S.ts ELSE Append(S.ts, S.t),
   last |-> Called(op, addLogThrows(S.L), returned)]

WithRequest(S, endpoint, method, data, requestId, generated, by) ==
  AfterLog(S, logRequest(S.L, S.t, endpoint, method, data, requestId, generated, browser),
           "logRequest", logRequestId(requestId, generated),
           LogEvent("REQUEST", logRequestId(requestId, generated), by))

WithResponse(S, requestId, endpoint, data, by) ==
  AfterLog(S, logResponse(S.L, S.t, requestId, endpoint, data, <<200>>, <<1>>, browser),
           "logResponse", Absent, LogEvent("RESPONSE", requestId, by))

WithError(S, requestId, endpoint, error, context, by) ==
  AfterLog(S, logError(S.L, S.t, requestId, endpoint, error, context, browser),
           "logError", Absent, LogEvent("ERROR", requestId, by))

WithEvent(S, event) == [S EXCEPT !.ev = Append(@, event)]

\* the JSON of a response body, as far as the log is concerned
ResponseJson(response) ==
  LET e == IF "output" \in DOMAIN response THEN Unwrap(response).error ELSE Absent
  IN  IF e \notin {Absent, ""} THEN Obj(<< <<K_error, Str(e, Len(e))>> >>)
      ELSE Obj(<<>>)

UrlJson(url) == Obj(<< <<K_url, Str(url, Len(url))>> >>)

\* intercept(), up to next.handle(req)
InterceptRequest(S, req, iid) ==
  IF shouldSkipLogging(req.url) THEN S
  ELSE WithRequest(S, extractEndpoint(req.url), req.method, UrlJson(req.url),
                   iid, iid, "interceptor")

\* intercept(), the `next` callback of tap
InterceptResponse(S, req, iid, response) ==
  IF shouldSkipLogging(req.url) THEN S
  ELSE WithResponse(S, iid, extractEndpoint(req.url), ResponseJson(response),
                    "interceptor")

\* intercept(), the `error` callback of tap
InterceptError(S, req, iid, error) ==
  IF shouldSkipLogging(req.url) THEN S
  ELSE WithError(S, iid, extractEndpoint(req.url),
                 Obj(<< <<K_message, Str(error.message, Len(error.message))>> >>),
                 UrlJson(req.url), "interceptor")

\* http.get/post/delete subscribed: through the interceptor to the network
Send(S, req, iid) == WithEvent(InterceptRequest(S, req, iid), NetEvent(req))

----------------------------------------------------------------------------
(* ApiService and MockApiService: the operations                           *)

K_request   == <<"r","e","q","u","e","s","t">>
K_processId == <<"p","r","o","c","e","s","s","I","d">>

\* the ids a caller may pass; the job the backend knows has id "7"
Ids == {"7", "notes.txt"}
Processes == {[id |-> "7", status |-> st] : st \in {"running", "completed"}}

NoRequest == [absent |-> TRUE]
\* no operation under way
Idle ==
  [op |-> Absent, id |-> Absent, pc |-> "idle", requestId |-> Absent, iid |-> Absent,
   stage |-> Absent, req |-> NoRequest, pending |-> NoJob]

\* the data the operation hands to logRequest
RequestJson(op, id) ==
  LET path == LoggedPath(op, id)
  IN  Obj(<< <<K_endpoint, Str(path, Len(path))>> >>)

\* the context the operation hands to logError
ErrorContext(op, id) ==
  CASE op = "startTraining" -> Obj(<< <<K_request, Str("request", 7)>> >>)
    [] op = "cancelProcess" -> Obj(<< <<K_processId, Str(id, Len(id))>> >>)
    [] OTHER -> Undefined

\* MockApiService: what each operation answers on the job p
MockOutcome(op, id, p) ==
  CASE op = "getDownloadUrl" ->
         IF id # p.id THEN Thrown("Process not found")
         ELSE IF p.status # "completed" THEN Thrown("Process not completed")
         ELSE Returned("https://storage.runpod.io/bucket/results/output.zip")
    [] op = "cancelProcess" ->
         IF id # p.id THEN Thrown("Process not found")
         ELSE IF p.status \notin {"pending", "running"}
              THEN Thrown("Cannot cancel process in current state")
              ELSE Returned("Process cancelled successfully")
    [] op = "getProcess" ->
         IF id # p.id THEN Thrown("Process not found") ELSE Returned(p)
    [] op = "getProcesses" -> Returned(<<p>>)
    [] op = "getHealth" -> Returned("API is healthy")
    [] op = "startTraining" -> Returned("Training process started successfully")
    [] op = "getBulkDownloadUrls" -> Returned("download_items")

\* MockApiService.cancelProcess marks the job cancelled
MockProcessAfter(op, id, p) ==
  IF op = "cancelProcess" /\ MockOutcome(op, id, p).ok
  THEN [p EXCEPT !.status = "cancelled"] ELSE p

\* getHealth on the queue protocol answers a failed native probe with the
\* custom health job
HealthFallbackApplies(c, e) ==
  c.op = "getHealth" /\ isRunPodEndpoint(e.apiBaseUrl) /\ c.stage = "native"

\* the events of a step become part of the state
Commit(S, c) ==
  /\ logger' = S.L
  /\ now' = S.t
  /\ lastCall' = S.last
  /\ history' = history \o S.ts
  /\ sinceLimit' = sinceLimit + Len(S.ts)
  /\ trace' = trace \o S.ev
  /\ call' = c
  /\ UNCHANGED <<horizon, payload, errArg, browser, env, uiVars>>

\* an operation of ApiService called and subscribed to
StartCall(op, id) ==
  /\ call.pc = "idle"
  /\ \E generated \in RequestIds, iid \in InterceptorIds :
       LET queue == isRunPodEndpoint(env.apiBaseUrl)
           logs == op \in AdapterLogged
           S1 == IF logs
                 THEN WithRequest(Begin, env.apiBaseUrl, LoggedMethod(op),
                                  RequestJson(op, id), Absent, generated, "adapter")
                 ELSE Begin
           req == IF queue THEN QueueRequest(op, id, env) ELSE DirectRequest(op, id, env)
           mock == MockOutcome(op, id, process)
           started == [Idle EXCEPT !.op = op, !.id = id,
                                   !.requestId = IF logs THEN generated ELSE Absent]
       IN  IF env.mockMode
           THEN /\ Commit(IF mock.ok THEN S1
                          ELSE WithEvent(S1, DeliverEvent("error", mock.error)),
                          [started EXCEPT !.pc = IF mock.ok THEN "mock" ELSE "done",
                                          !.pending = mock])
                /\ process' = MockProcessAfter(op, id, process)
           ELSE /\ Commit(Send(S1, req, iid),
                          [started EXCEPT !.pc = "inFlight", !.req = req, !.iid = iid,
                                          !.stage = IF op = "getHealth" /\ queue
                                                    THEN "native" ELSE "single"])
                /\ UNCHANGED process

GetHealth == StartCall("getHealth", Absent)
GetProcesses == StartCall("getProcesses", Absent)
StartTraining == StartCall("startTraining", Absent)
GetDownloadUrl == \E id \in Ids : StartCall("getDownloadUrl", id)
CancelProcess == \E id \in Ids : StartCall("cancelProcess", id)
GetProcess == \E id \in Ids : StartCall("getProcess", id)
GetBulkDownloadUrls == StartCall("getBulkDownloadUrls", Absent)

\* ProcessesTabComponent.downloadResults(process)
DownloadResults ==
  IF process.status # "completed"
  THEN /\ call.pc = "idle"
       /\ call' = [Idle EXCEPT !.op = "downloadResults", !.id = process.id, !.pc = "done"]
       /\ UNCHANGED <<loggerVars, env, trace, process, uiVars>>
  ELSE StartCall("getDownloadUrl", process.id)

\* the delayed value of a mock operation arrives
MockDeliver ==
  /\ call.pc = "mock"
  /\ Commit(WithEvent(Begin, DeliverEvent("next", call.pending.value)),
            [call EXCEPT !.pc = "done"])
  /\ UNCHANGED process

\* the HTTP call answers 2xx: the interceptor's tap, then the operation's map,
\* tap and catchError
HttpSuccess ==
  /\ call.pc = "inFlight"
  /\ \E response \in IF isRunPodEndpoint(env.apiBaseUrl)
                     THEN QueueResponses ELSE DirectResponses :
       LET queue == isRunPodEndpoint(env.apiBaseUrl)
           providerError == /\ queue
                            /\ call.req.method = "POST"
                            /\ Unwrap(response).error \notin {Absent, ""}
           S1 == InterceptResponse(WithEvent(Begin, ReplyEvent(TRUE, providerError, response)),
                                   call.req, call.iid, response)
           r == IF call.stage = "fallback" THEN mapHealthFallback(response)
                ELSE IF queue THEN mapQueue(call.op, call.id, response)
                ELSE mapDirect(call.op, call.id, response)
           logs == call.op \in AdapterLogged
           endpoint == OutcomeEndpoint(call.op, call.id, env)
           S2 == IF ~logs \/ call.stage = "fallback" THEN S1
                 ELSE IF r.ok
                 THEN WithResponse(S1, call.requestId, endpoint, ResponseJson(response),
                                   "adapter")
                 ELSE WithError(S1, call.requestId, endpoint, r.error,
                                ErrorContext(call.op, call.id), "adapter")
       IN  /\ Commit(WithEvent(S2, IF r.ok THEN DeliverEvent("next", r.value)
                                   ELSE DeliverEvent("error", handleError(r.error))),
                     [call EXCEPT !.pc = "done"])
           /\ UNCHANGED process

\* the HTTP call fails: the interceptor's tap, then the operation's catchError
HttpFailure ==
  /\ call.pc = "inFlight"
  /\ \E error \in HttpErrors, iid \in InterceptorIds :
       LET S1 == InterceptError(WithEvent(Begin, ReplyEvent(FALSE, FALSE, NoJob)),
                                call.req, call.iid, error)
           logs == call.op \in AdapterLogged
           S2 == IF logs
                 THEN WithError(S1, call.requestId, OutcomeEndpoint(call.op, call.id, env),
                                error, ErrorContext(call.op, call.id), "adapter")
                 ELSE S1
       IN  /\ IF HealthFallbackApplies(call, env)
              THEN Commit(Send(S1, HealthFallbackRequest(env), iid),
                          [call EXCEPT !.stage = "fallback", !.iid = iid,
                                       !.req = HealthFallbackRequest(env)])
              ELSE Commit(WithEvent(S2, DeliverEvent("error", handleError(error))),
                          [call EXCEPT !.pc = "done"])
           /\ UNCHANGED process

ApiInit ==
  /\ env \in Environments
  /\ process \in Processes
  /\ call = Idle
  /\ trace = <<>>
  /\ logger = NewLogger(StoredMissing, <<>>)
  /\ browser = IOHealthy
  /\ now = 0
  /\ horizon = 0
  /\ payload = PlainLeaf
  /\ errArg = ErrorObj("boom")
  /\ lastCall = Called("constructor", FALSE, Absent)
  /\ history = <<>>
  /\ sinceLimit = 0
  /\ view = Unused
  /\ delivery = Unused
  /\ jobs = <<>>

ApiNext ==
  \/ GetHealth
  \/ GetProcesses
  \/ StartTraining
  \/ GetDownloadUrl
  \/ CancelProcess
  \/ GetProcess
  \/ GetBulkDownloadUrls
  \/ DownloadResults
  \/ MockDeliver
  \/ HttpSuccess
  \/ HttpFailure

\* one operation of the adapter, from the call to the delivery of its outcome
SpecApi == ApiInit /\ [][ApiNext]_vars

\* the environment of part_009, for runs that only use the logger
DevEnvironment ==
  [mockMode |-> FALSE, apiBaseUrl |-> RunPodBaseUrl, token |-> Absent,
   runpodToken |-> "rpa_live"]

----------------------------------------------------------------------------
(* Direct use of the logger (LogsTabComponent, ConfigTabComponent)         *)

Leaves == {SecretLeaf, PlainLeaf, LongLeaf}

RECURSIVE Payloads(_)
Payloads(d) ==
  IF d = 0 THEN Leaves
  ELSE LET sub == Payloads(d - 1)
       IN  Leaves \cup {Obj(<< <<k, v>> >>) : k \in PayloadKeys, v \in sub}
                  \cup {Arr(<<v>>) : v \in sub}

RichPayloads ==
  Payloads(MaxDepth)
    \cup {Null, Cyclic,
          Obj(<< <<K_name, PlainLeaf>>, <<K_password, SecretLeaf>> >>)}

SimplePayloads == {Obj(<< <<K_name, PlainLeaf>> >>)}

OldEntry(ts) ==
  LogEntry(ts, "REQUEST", "INFO", "old", "/processes", "GET", Undefined, Undefined, <<>>)

\* n entries written by an earlier session, the newest with timestamp -1
StoredLogs(n) == StoredJson([i \in 1..n |-> OldEntry(i - n - 1)])

StoredChoices ==
  {StoredMissing, StoredCorrupt, StoredNotArray, StoredLogs(1), StoredLogs(MaxStored)}

FileLists == {<<[name |-> "img1.png"]>>}

Timestamps(logs) == [i \in DOMAIN logs |-> logs[i].timestamp]

LoggerInit(payloads, errors, stored, ios, h) ==
  /\ payload \in payloads
  /\ errArg \in {ErrorObj("boom")} \cup (errors \cap {payload})
  /\ \E st \in stored : logger = NewLogger(st, <<>>)
  /\ browser \in ios
  /\ now = 0
  /\ horizon = h
  /\ lastCall = Called("constructor", FALSE, Absent)
  /\ history = Timestamps(logger.logs)
  /\ sinceLimit = 0
  /\ view = Unused
  /\ delivery = Unused
  /\ jobs = <<>>
  /\ env = DevEnvironment
  /\ call = Idle
  /\ trace = <<>>
  /\ process \in {pr \in Processes : pr.status = "running"}

\* the bookkeeping of one logging call that read the clock at `now`
Logged(L1, op, returned) ==
  /\ logger' = L1
  /\ now' = now + 1
  /\ lastCall' = Called(op, addLogThrows(logger), returned)
  /\ history' = IF addLogThrows(logger) THEN history ELSE Append(history, now)
  /\ sinceLimit' = IF addLogThrows(logger) THEN sinceLimit ELSE sinceLimit + 1
  /\ UNCHANGED <<horizon, payload, errArg, browser, apiVars, uiVars>>

LogRequest ==
  /\ now < horizon
  /\ \E requestId \in {Absent}, generated \in RequestIds :
       Logged(logRequest(logger, now, "/train", "POST", payload, requestId, generated, browser),
              "logRequest",
              IF addLogThrows(logger) THEN Absent
              ELSE logRequestId(requestId, generated))

LogResponse ==
  /\ now < horizon
  /\ \E requestId \in {"k3x9q2ab"} :
       Logged(logResponse(logger, now, requestId, "/train", payload, <<200>>, <<250>>, browser),
              "logResponse", Absent)

LogError ==
  /\ now < horizon
  /\ \E requestId \in {"k3x9q2ab"}, context \in {payload} :
       Logged(logError(logger, now, requestId, "/train", errArg, context, browser),
              "logError", Absent)

LogFileOperation ==
  /\ now < horizon
  /\ \E files \in FileLists :
       Logged(logFileOperation(logger, now, "upload", files, Absent, browser),
              "logFileOperation", Absent)

\* LogsTabComponent.loadFrontendLogs(): setDataTruncation, setMaxLogs, getLogs and,
\* when there are no logs, a test request
LoadFrontendLogs ==
  \E showFullContent \in BOOLEAN, generated \in RequestIds :
    LET L1 == [logger EXCEPT !.truncateData = ~showFullContent]
        L2 == setMaxLogs(L1, IF showFullContent THEN FullMaxLogs ELSE NormalMaxLogs, browser)
        empty == L2.logsIsArray /\ L2.logs = <<>>
    IN  /\ empty => now < horizon
        /\ logger' = IF empty
                     THEN logRequest(L2, now, "/debug/test", "GET",
                                     Obj(<< <<K_test, Str("true", 4)>> >>), Absent, generated, browser)
                     ELSE L2
        /\ now' = IF empty THEN now + 1 ELSE now
        /\ lastCall' = IF empty THEN Called("logRequest", FALSE, generated) ELSE lastCall
        /\ history' = IF empty THEN Append(history, now) ELSE history
        /\ sinceLimit' = IF empty THEN 1 ELSE 0
        /\ UNCHANGED <<horizon, payload, errArg, browser, apiVars, uiVars>>

ClearLogs ==
  /\ logger' = clearLogs(logger, browser)
  /\ history' = <<>>
  /\ sinceLimit' = 0
  /\ UNCHANGED <<now, horizon, payload, errArg, browser, lastCall, apiVars, uiVars>>

DownloadCurrentTextBuffer ==
  /\ logger' = downloadCurrentTextBuffer(logger, browser)
  /\ UNCHANGED <<now, horizon, payload, errArg, browser, lastCall, history, sinceLimit,
                 apiVars, uiVars>>

LoggerNext ==
  \/ LogRequest
  \/ LogResponse
  \/ LogError
  \/ LogFileOperation
  \/ LoadFrontendLogs
  \/ ClearLogs

\* the logger under a run of calls with one small payload
SpecLogger ==
  LoggerInit(SimplePayloads, {}, StoredChoices, {IOHealthy}, MaxClock)
    /\ [][LoggerNext]_vars

TextBufferNext ==
  \/ LogRequest
  \/ LogResponse
  \/ LogError
  \/ LogFileOperation
  \/ DownloadCurrentTextBuffer

\* the text buffer and its downloads under a run of calls
SpecTextBuffer ==
  LoggerInit(SimplePayloads, {}, {StoredMissing}, IOChoices, MaxClock)
    /\ [][TextBufferNext]_vars

SanitizeNext ==
  \/ LogRequest
  \/ LogResponse
  \/ LogError
  \/ LogFileOperation
  \/ LoadFrontendLogs

\* one logging call, over all payloads, on a logger that holds one older entry
SpecSanitize ==
  LoggerInit(RichPayloads, RichPayloads, {StoredLogs(1)}, {IOHealthy}, 1)
    /\ [][SanitizeNext]_vars

----------------------------------------------------------------------------
(* Sanitization of what the logger stores and emits                        *)

\* LoggingInterceptor.sanitizeValue: the five terms, matched on the lowered key
sensitiveKeys == {T_password, T_token, T_key, T_secret, T_auth}
MatchesSensitiveKey(key) ==
  \E k \in sensitiveKeys : includes(toLowerCase(key), k)

\* every value below a key of the five-term list is the redaction marker
RECURSIVE SensitiveHidden(_)
SensitiveHidden(v) ==
  CASE v.t = "obj" ->
         \A i \in DOMAIN v.kv :
           IF MatchesSensitiveKey(v.kv[i][1])
           THEN v.kv[i][2] = HiddenMarker
           ELSE SensitiveHidden(v.kv[i][2])
    [] v.t = "arr" -> \A i \in DOMAIN v.items : SensitiveHidden(v.items[i])
    [] OTHER -> TRUE

\* v is a result of the logger's own redaction: redacting it again changes nothing
IsSanitizedForm(v) == sanitizeData(v, FALSE) = v

LastEntry == logger.logs[Len(logger.logs)]

LoggingOps == {"logRequest", "logResponse", "logError", "logFileOperation"}

JustLogged ==
  /\ lastCall.op \in LoggingOps
  /\ ~lastCall.threw
  /\ logger.logs # <<>>
  /\ LastEntry.timestamp = now - 1

\* C1: in every stored entry, the value of every key that matches one of
\* password, token, key, secret, auth (case-insensitively, at any depth of the
\* payload) is the redaction marker.
C1_SensitiveValuesHidden ==
  \A i \in DOMAIN logger.logs : SensitiveHidden(logger.logs[i].data)

\* C2: whatever a logging call stores in its entry (data, error) or emits to
\* the console is a sanitized form, whichever operation was called and
\* whatever the settings of the logger are.
C2_AlwaysSanitized ==
  JustLogged =>
    /\ IsSanitizedForm(LastEntry.data)
    /\ IsSanitizedForm(LastEntry.error)
    /\ \A i \in DOMAIN logger.console : IsSanitizedForm(logger.console[i])

----------------------------------------------------------------------------
(* The bound of the in-memory log                                          *)

\* the log is the last n timestamps of the history, in order
IsMostRecent(logs, n) ==
  /\ Len(logs) = n
  /\ Len(history) >= n
  /\ \A i \in 1..n : logs[i].timestamp = history[Len(history) - n + i]

\* the entries appended by this session since the log was last cleared
\* (hydrated entries carry the timestamps of an earlier session)
Appended == Cardinality({i \in DOMAIN history : history[i] >= 0})

----------------------------------------------------------------------------
(* The adapter's operations: logging order, errors, credentials, health    *)

Events(k) == {i \in DOMAIN trace : trace[i].k = k}
IsLog(i, type) == trace[i].k = "log" /\ trace[i].type = type
QueueProtocol == ~env.mockMode /\ isRunPodEndpoint(env.apiBaseUrl)
DirectProtocol == ~env.mockMode /\ ~isRunPodEndpoint(env.apiBaseUrl)

\* C4: every network call of an operation is preceded by a REQUEST entry of
\* that operation, whether the operation or the HTTP interceptor wrote it
C4_RequestLoggedBeforeNetworkCall ==
  \A i \in Events("net") : \E j \in 1..(i - 1) : IsLog(j, "REQUEST")

\* C5: before an operation delivers a result a RESPONSE entry, and before it
\* delivers an error an ERROR entry, has been written under a correlation id
\* that a REQUEST entry of the operation carries
C5_OutcomeLoggedBeforeDelivery ==
  \A i \in Events("deliver") :
    \E j \in 1..(i - 1) :
      /\ IsLog(j, IF trace[i].how = "next" THEN "RESPONSE" ELSE "ERROR")
      /\ \E r \in 1..(j - 1) :
           IsLog(r, "REQUEST") /\ trace[r].requestId = trace[j].requestId

\* the operation's last network call failed or its response carried a
\* provider error
FinalReplyFailed(i) ==
  /\ trace[i].k = "reply"
  /\ ~trace[i].ok \/ trace[i].providerError
  /\ \A n \in Events("net") : n < i

\* C6: an operation whose network call failed, or whose response carried a
\* provider error, ends with a normalized error and with no normal result
C6_FailuresRaiseNormalizedError ==
  \A i \in DOMAIN trace :
    FinalReplyFailed(i) =>
      /\ \E d \in Events("deliver") :
           d > i /\ trace[d].how = "error" /\ trace[d].value.t = "Error"
      /\ \A d \in Events("deliver") : trace[d].how = "error"

\* C7: asking for the download URL of the job while it is not completed
\* issues no network call and ends with the error "Process not completed"
C7_NotCompletedNeverCallsNetwork ==
  (call.op = "getDownloadUrl" /\ call.id = process.id /\ process.status # "completed")
    => /\ Events("net") = {}
       /\ call.pc = "done" =>
            \E d \in Events("deliver") :
              /\ trace[d].how = "error"
              /\ trace[d].value = ErrorObj("Process not completed")

\* C8: with both tokens absent no request carries an Authorization or an
\* X-RunPod-Token header, and no header ever has an empty or placeholder value
C8_AbsentTokenOmitsHeader ==
  \A i \in Events("net") :
    /\ (env.token = Absent /\ env.runpodToken = Absent) =>
         HeaderNames(trace[i].req.headers) \cap {"Authorization", "X-RunPod-Token"} = {}
    /\ \A h \in trace[i].req.headers : h[2] \notin {"", "Bearer ", "Bearer undefined"}

\* C9: on the direct protocol every request carries the bearer token as its
\* Authorization header when there is a bearer token
C9_DirectCallsCarryBearer ==
  (DirectProtocol /\ env.token # Absent) =>
    \A i \in Events("net") :
      Header("Authorization", "Bearer " \o env.token) \in trace[i].req.headers

IsNativeProbe(req) == req.method = "GET" /\ req.url = env.apiBaseUrl \o "/health"
IsHealthJob(req) ==
  req.method = "POST" /\ req.url = env.apiBaseUrl \o "/runsync" /\ req.body = "health"
FailedReplies == {i \in Events("reply") : ~trace[i].ok}

----------------------------------------------------------------------------
(* Jobs of the queue protocol                                              *)

\* the canonical Job the documentation promises for a reported job p
CanonicalJob(p) ==
  Job(p.id, Or(p.status, "unknown"), Or(p.type, "training"), Or(p.progress, "0"),
      Or(p.error, Absent))

\* C11: on the queue protocol a response that reports jobs with optional
\* fields left out ends getProcesses with the list of their canonical Jobs and
\* getProcess with the canonical Job, status "unknown" where none was given
C11_MissingFieldsGetDefaults ==
  QueueProtocol =>
    \A i \in Events("reply") :
      trace[i].ok =>
        LET data == Unwrap(trace[i].body)
        IN  /\ (call.op = "getProcesses" /\ data.processes # <<>>) =>
                 \E d \in Events("deliver") :
                   /\ d > i /\ trace[d].how = "next"
                   /\ trace[d].value =
                        [n \in DOMAIN data.processes |-> CanonicalJob(data.processes[n])]
            /\ (call.op = "getProcess" /\ data.process # NoJob) =>
                 \E d \in Events("deliver") :
                   /\ d > i /\ trace[d].how = "next"
                   /\ trace[d].value = CanonicalJob(data.process)

----------------------------------------------------------------------------
(* ProcessesTabComponent: loading, auto-refresh and teardown               *)

MaxCalls == 3
MaxTimers == 2

Listed(id, created) == [id |-> id, created_at |-> created]
\* what getProcesses may deliver
Listings == {<<Listed("1", 1), Listed("2", 2)>>, <<Listed("3", 3)>>}

\* processes.sort((a, b) => b.created_at - a.created_at)
RECURSIVE InsertByCreated(_, _)
InsertByCreated(p, sorted) ==
  IF sorted = <<>> THEN <<p>>
  ELSE IF Head(sorted).created_at >= p.created_at
       THEN <<Head(sorted)>> \o InsertByCreated(p, Tail(sorted))
       ELSE <<p>> \o sorted
RECURSIVE SortByCreated(_)
SortByCreated(list) ==
  IF list = <<>> THEN <<>>
  ELSE InsertByCreated(Head(list), SortByCreated(Tail(list)))

\* a call of the adapter the component subscribed to: who issued it, the
\* interval it belongs to, how it stands and why, what it answered, whether it
\* was issued after the teardown and how many answers had been shown before it
ViewCall(by, timer, late, seen) ==
  [by |-> by, timer |-> timer, state |-> "inFlight", why |-> "", late |-> late,
   seen |-> seen, result |-> <<>>]

\* the component after construction: the field initialisers
NewView ==
  [started |-> FALSE, destroyed |-> FALSE, autoRefresh |-> TRUE, isLoading |-> FALSE,
   processes |-> <<>>, timers |-> {}, timerCount |-> 0, calls |-> <<>>,
   resolved |-> <<>>]

InFlight(v) == {c \in DOMAIN v.calls : v.calls[c].state = "inFlight"}

Issue(v, by, timer) ==
  [v EXCEPT !.calls = Append(@, ViewCall(by, timer, v.destroyed, Len(v.resolved)))]

\* loadProcesses()
loadProcesses(v) ==
  IF v.isLoading THEN v
  ELSE Issue([v EXCEPT !.isLoading = TRUE], "load", 0)

\* startAutoRefresh(): one more interval subscription
startAutoRefresh(v) ==
  IF v.autoRefresh
  THEN [v EXCEPT !.timerCount = @ + 1, !.timers = @ \cup {v.timerCount + 1}]
  ELSE v

\* toggleAutoRefresh()
toggleAutoRefresh(v) == startAutoRefresh([v EXCEPT !.autoRefresh = ~@])

\* the subscription to call c ends without its callbacks having run
Unsubscribe(v, cs, why) ==
  [v EXCEPT !.calls = [c \in DOMAIN @ |->
                         IF c \in cs THEN [@[c] EXCEPT !.state = "unsubscribed", !.why = why]
                         ELSE @[c]]]

\* switchMap on a tick of interval t: the inner subscription of the tick
\* before is dropped, then getProcesses() is called and subscribed to
switchMapTick(v, t) ==
  Issue(Unsubscribe(v, {c \in InFlight(v) : v.calls[c].timer = t}, "switchMap"),
        "poll", t)

\* a component that keeps the list it has once it has one
showProcessesOnce(v, processes) ==
  IF v.processes = <<>> THEN [v EXCEPT !.processes = SortByCreated(processes)] ELSE v
\* the `next` callbacks that assign this.processes
showProcesses(v, processes) == [v EXCEPT !.processes = SortByCreated(processes)]

\* the `next` callback of the subscription to call c
onNext(v, c, result) ==
  LET v1 == [v EXCEPT !.calls[c].state = "resolved", !.calls[c].result = result,
                      !.resolved = IF v.calls[c].by \in {"load", "poll"}
                                   THEN Append(@, c) ELSE @]
  IN  CASE v.calls[c].by = "load" -> [showProcesses(v1, result) EXCEPT !.isLoading = FALSE]
        [] v.calls[c].by = "poll" -> showProcesses(v1, result)
        [] v.calls[c].by = "cancel" -> loadProcesses(v1)

\* the `error` callback of the subscription to call c; an error of a polled
\* call ends the interval subscription it came through
onError(v, c) ==
  LET v1 == [v EXCEPT !.calls[c].state = "failed"]
  IN  CASE v.calls[c].by = "load" -> [v1 EXCEPT !.isLoading = FALSE]
        [] v.calls[c].by = "poll" -> [v1 EXCEPT !.timers = @ \ {v.calls[c].timer}]
        [] v.calls[c].by = "cancel" -> v1

\* ngOnDestroy(): destroy$.next() ends what was piped through takeUntil
ngOnDestroy(v) ==
  [Unsubscribe(v, {c \in InFlight(v) : v.calls[c].by \in {"load", "poll"}}, "destroy")
     EXCEPT !.destroyed = TRUE, !.timers = {}]

ViewStep(v) ==
  /\ Len(v.calls) <= MaxCalls
  /\ view' = v
  /\ UNCHANGED <<loggerVars, apiVars, delivery, jobs>>

NgOnInit ==
  /\ ~view.started
  /\ ViewStep(startAutoRefresh(loadProcesses([view EXCEPT !.started = TRUE])))

\* the user asks for the list
LoadProcesses ==
  /\ view.started /\ ~view.destroyed
  /\ ViewStep(loadProcesses(view))

ToggleAutoRefresh ==
  /\ view.started /\ ~view.destroyed
  /\ view.autoRefresh \/ view.timerCount < MaxTimers
  /\ ViewStep(toggleAutoRefresh(view))

\* cancelProcess(process): subscribed to without takeUntil
CancelJob ==
  /\ view.started /\ ~view.destroyed
  /\ ViewStep(Issue(view, "cancel", 0))

\* an interval fires
Tick ==
  \E t \in view.timers : ViewStep(switchMapTick(view, t))

\* a call that is still subscribed to answers
CallResolves ==
  \E c \in InFlight(view), result \in Listings : ViewStep(onNext(view, c, result))

CallFails ==
  \E c \in InFlight(view) : ViewStep(onError(view, c))

NgOnDestroy ==
  /\ view.started /\ ~view.destroyed
  /\ ViewStep(ngOnDestroy(view))

ViewInit ==
  /\ view = NewView
  /\ delivery = Unused
  /\ jobs = <<>>
  /\ env = DevEnvironment
  /\ call = Idle
  /\ trace = <<>>
  /\ process \in {pr \in Processes : pr.status = "running"}
  /\ logger = NewLogger(StoredMissing, <<>>)
  /\ browser = IOHealthy
  /\ now = 0
  /\ horizon = 0
  /\ payload = PlainLeaf
  /\ errArg = ErrorObj("boom")
  /\ lastCall = Called("constructor", FALSE, Absent)
  /\ history = <<>>
  /\ sinceLimit = 0

ViewNext ==
  \/ NgOnInit
  \/ LoadProcesses
  \/ ToggleAutoRefresh
  \/ CancelJob
  \/ Tick
  \/ CallResolves
  \/ CallFails
  \/ NgOnDestroy

\* the processes tab from its construction to after its teardown
SpecView == ViewInit /\ [][ViewNext]_vars

----------------------------------------------------------------------------
(* Polling, concurrent calls and teardown                                  *)

PollCalls(v) == {c \in DOMAIN v.calls : v.calls[c].by = "poll"}

\* C12: a tick that fires while the call of the tick before is in flight
\* leaves that call alone: no call is ever dropped for a later one
C12_TicksDoNotCancelEarlierCalls ==
  \A c \in DOMAIN view.calls : view.calls[c].why # "switchMap"

\* where call c stands among the answers shown
RECURSIVE Position(_, _)
Position(order, c) ==
  IF order = <<>> THEN 0
  ELSE IF order[Len(order)] = c THEN Len(order)
  ELSE Position(SubSeq(order, 1, Len(order) - 1), c)

\* calls a and b, a issued first, were in flight at the same time and both answered
ResolvedConcurrently(a, b) ==
  /\ a < b
  /\ Position(view.resolved, a) > 0 /\ Position(view.resolved, b) > 0
  /\ Position(view.resolved, a) > view.calls[b].seen

\* C13: when two getProcesses calls were in flight together and the last
\* answer shown is one of theirs, the list shown is that answer, whichever
\* of the two was issued first
C13_LastResolvedWins ==
  \A a, b \in DOMAIN view.calls :
    LET last == view.resolved[Len(view.resolved)]
    IN  (ResolvedConcurrently(a, b) /\ last \in {a, b}) =>
          view.processes = SortByCreated(view.calls[last].result)

\* the call issued first answered last, with another list, and its list is shown
C13_Witness ==
  \E a, b \in DOMAIN view.calls :
    /\ ResolvedConcurrently(a, b)
    /\ view.resolved[Len(view.resolved)] = a
    /\ view.calls[a].result # view.calls[b].result
    /\ view.processes = SortByCreated(view.calls[a].result)

\* C14: with auto-refresh switched off, or the view destroyed, no step issues
\* a polled getProcesses call
C14_NoPollingAfterCancellation ==
  [][(view.started /\ (~view.autoRefresh \/ view.destroyed)) =>
       PollCalls(view') = PollCalls(view)]_vars

\* C15: once the view is destroyed no step changes its fields and none issues
\* a call on its behalf
C15_NoCallbacksAfterTeardown ==
  [][view.destroyed =>
       /\ view'.processes = view.processes
       /\ view'.isLoading = view.isLoading
       /\ Len(view'.calls) = Len(view.calls)]_vars

----------------------------------------------------------------------------
(* MockApiService: the job table and its timers                            *)

MaxJobs == 5
TotalSteps == 3
MaxAdvance == 3

\* a job of the table: `seed` for the jobs of MOCK_PROCESSES, which the
\* interval of the constructor updates; `timer` is the pending timeout that
\* starts the job: "always" for the one startTraining and startGeneration
\* set, "ifPending" for the one simulateRandomEvents sets
MockJob(id, status, step, seed, timer) ==
  [id |-> id, status |-> status, step |-> step, total_steps |-> TotalSteps,
   progress |-> (step * 100) \div TotalSteps, seed |-> seed, timer |-> timer]

TerminalStatuses == {"completed", "failed", "cancelled"}

\* private processes = [...MOCK_PROCESSES]
SeedJobs ==
  <<MockJob(1, "running", 1, TRUE, "none"),
    MockJob(2, "completed", TotalSteps, TRUE, "none"),
    MockJob(3, "pending", 0, TRUE, "none")>>

\* startTraining, startGeneration, simulateRandomEvents: the new job goes
\* first and a timeout is set for it
unshiftPending(table, timer) ==
  <<MockJob(Len(table) + 1, "pending", 0, FALSE, timer)>> \o table

\* the timeout of job p fires
startAfterDelay(p) ==
  IF p.timer = "always" \/ (p.timer = "ifPending" /\ p.status = "pending")
  THEN [p EXCEPT !.status = "running", !.timer = "none"]
  ELSE [p EXCEPT !.timer = "none"]

\* cancelProcess on a job that is pending or running
cancelInTable(table, id) ==
  [n \in DOMAIN table |->
     IF table[n].id = id THEN [table[n] EXCEPT !.status = "cancelled"] ELSE table[n]]

\* updateRunningProcesses for one job: it advances by `advance` steps and
\* completes when it has run all its steps or when `lucky`
updateRunningProcess(p, advance, lucky) ==
  IF p.seed /\ p.status = "running" /\ p.step # 0 /\ p.total_steps # 0
       /\ p.step < p.total_steps
  THEN LET step == p.step + advance
       IN  IF step >= p.total_steps \/ lucky
           THEN [p EXCEPT !.status = "completed", !.progress = 100,
                          !.step = p.total_steps]
           ELSE [p EXCEPT !.step = step, !.progress = (step * 100) \div p.total_steps]
  ELSE p

MockStartTraining ==
  /\ Len(jobs) < MaxJobs
  /\ jobs' = unshiftPending(jobs, "always")
  /\ UNCHANGED <<loggerVars, apiVars, view, delivery>>

SimulateRandomEvents ==
  /\ Len(jobs) < MaxJobs
  /\ jobs' = unshiftPending(jobs, "ifPending")
  /\ UNCHANGED <<loggerVars, apiVars, view, delivery>>

StartTimeout ==
  \E n \in DOMAIN jobs :
    /\ jobs[n].timer # "none"
    /\ jobs' = [jobs EXCEPT ![n] = startAfterDelay(jobs[n])]
    /\ UNCHANGED <<loggerVars, apiVars, view, delivery>>

MockCancelProcess ==
  \E n \in DOMAIN jobs :
    /\ jobs[n].status \in {"pending", "running"}
    /\ jobs' = cancelInTable(jobs, jobs[n].id)
    /\ UNCHANGED <<loggerVars, apiVars, view, delivery>>

\* the interval of the constructor fires
UpdateRunningProcesses ==
  \E advance \in 1..MaxAdvance, lucky \in BOOLEAN :
    /\ jobs' = [n \in DOMAIN jobs |-> updateRunningProcess(jobs[n], advance, lucky)]
    /\ UNCHANGED <<loggerVars, apiVars, view, delivery>>

MockInit ==
  /\ jobs = SeedJobs
  /\ view = Unused
  /\ delivery = Unused
  /\ env = [DevEnvironment EXCEPT !.mockMode = TRUE]
  /\ call = Idle
  /\ trace = <<>>
  /\ process \in {pr \in Processes : pr.status = "running"}
  /\ logger = NewLogger(StoredMissing, <<>>)
  /\ browser = IOHealthy
  /\ now = 0
  /\ horizon = 0
  /\ payload = PlainLeaf
  /\ errArg = ErrorObj("boom")
  /\ lastCall = Called("constructor", FALSE, Absent)
  /\ history = <<>>
  /\ sinceLimit = 0

MockNext ==
  \/ MockStartTraining
  \/ SimulateRandomEvents
  \/ StartTimeout
  \/ MockCancelProcess
  \/ UpdateRunningProcesses

\* the mock backend's job table under its operations and timers
SpecMock == MockInit /\ [][MockNext]_vars

JobWithId(table, id) == CHOOSE p \in {table[n] : n \in DOMAIN table} : p.id = id

Settled(p) == [p EXCEPT !.timer = "none"]

\* C16: once a job is completed, failed or cancelled, no operation and no
\* timer changes its status or any other of its fields
C16_TerminalJobsImmutable ==
  [][\A n \in DOMAIN jobs :
       jobs[n].status \in TerminalStatuses =>
         Settled(JobWithId(jobs', jobs[n].id)) = Settled(jobs[n])]_vars

----------------------------------------------------------------------------
(* File delivery: FrontendLoggerService.downloadFileWithFallback and       *)
(* DownloadsTabComponent.triggerFileDownload                               *)

MaxDeliveries == 2

\* what the browser does with each mechanism: 1 the object-URL anchor, 2 the
\* data-URI anchor, 3 window.open (null when the popup is blocked), 4
\* navigator.clipboard.writeText (absent, throwing, or returning a promise
\* that is rejected later)
StepOutcomes(k) ==
  CASE k = 3 -> {"ok", "blocked", "throws"}
    [] k = 4 -> {"ok", "unsupported", "throws", "rejects"}
    [] OTHER -> {"ok", "throws"}

Browsers == {b \in [1..4 -> {"ok", "blocked", "throws", "unsupported", "rejects"}] :
               \A k \in 1..4 : b[k] \in StepOutcomes(k)}

\* the try block of step k ends in its catch, or falls through its `if`
FallsThrough(b, k) == b[k] \in {"throws", "blocked", "unsupported"}

RECURSIVE Chain(_, _)
\* the steps downloadFileWithFallback runs from step k on
Chain(b, k) ==
  IF k > 4 THEN <<>>
  ELSE IF FallsThrough(b, k) THEN <<k>> \o Chain(b, k + 1)
  ELSE <<k>>

downloadFileWithFallback(b) ==
  LET attempts == Chain(b, 1)
      allFailed == Len(attempts) = 4 /\ FallsThrough(b, 4)
  IN  [attempts |-> attempts,
       alert |-> IF allFailed THEN "Download failed!"
                 ELSE IF Len(attempts) = 4 THEN "copied to clipboard"
                 ELSE "none",
       surfaced |-> allFailed,
       thrown |-> FALSE]

\* the one try block of triggerFileDownload: atob, then the object-URL anchor
triggerFileDownload(decodes, b) ==
  [attempts |-> IF decodes THEN <<1>> ELSE <<>>,
   alert |-> IF decodes /\ b[1] = "ok" THEN "none" ELSE "Download failed",
   surfaced |-> FALSE,
   thrown |-> FALSE]

\* what the caller does after the delivery returned or threw
CallerReport(caller, d) ==
  IF d.thrown THEN "failed"
  ELSE CASE caller = "downloadLogsAsText" -> "Full log file downloaded"
         [] caller = "downloadFile" -> "Downloaded"
         [] OTHER -> "none"

Deliveries == IF "count" \in DOMAIN delivery THEN delivery.count ELSE 0

Deliver(caller, b, decodes, d) ==
  /\ Deliveries < MaxDeliveries
  /\ delivery' = [caller |-> caller, caps |-> b, decodes |-> decodes,
                  attempts |-> d.attempts, alert |-> d.alert,
                  surfaced |-> d.surfaced, thrown |-> d.thrown,
                  report |-> CallerReport(caller, d), count |-> Deliveries + 1]
  /\ UNCHANGED <<loggerVars, apiVars, view, jobs>>

DownloadLogs ==
  \E b \in Browsers : Deliver("downloadLogs", b, TRUE, downloadFileWithFallback(b))

DownloadLogsAsText ==
  \E b \in Browsers : Deliver("downloadLogsAsText", b, TRUE, downloadFileWithFallback(b))

DownloadFile ==
  \E b \in Browsers, decodes \in BOOLEAN :
    /\ \A k \in 2..4 : b[k] = "ok"
    /\ Deliver("downloadFile", b, decodes, triggerFileDownload(decodes, b))

DeliveryInit ==
  /\ delivery = Unused
  /\ view = Unused
  /\ jobs = <<>>
  /\ env = DevEnvironment
  /\ call = Idle
  /\ trace = <<>>
  /\ process \in {pr \in Processes : pr.status = "running"}
  /\ logger = NewLogger(StoredMissing, <<>>)
  /\ browser = IOHealthy
  /\ now = 0
  /\ horizon = 0
  /\ payload = PlainLeaf
  /\ errArg = ErrorObj("boom")
  /\ lastCall = Called("constructor", FALSE, Absent)
  /\ history = <<>>
  /\ sinceLimit = 0

DeliveryNext ==
  \/ DownloadLogs
  \/ DownloadLogsAsText
  \/ DownloadFile

\* deliveries of files to the user
SpecDelivery == DeliveryInit /\ [][DeliveryNext]_vars

Attempted(k) == \E n \in DOMAIN delivery.attempts : delivery.attempts[n] = k

StepFailed(k) == Attempted(k) /\ delivery.caps[k] # "ok"

\* C17: the mechanisms are tried in the order 1, 2, 3, 4, and step k+1 is
\* tried exactly when step k failed (a blocked popup is a failure of step 3)
C17_NextStepIffPreviousFailed ==
  Deliveries > 0 =>
    /\ \A n \in DOMAIN delivery.attempts : delivery.attempts[n] = n
    /\ \A k \in 1..3 : Attempted(k + 1) <=> StepFailed(k)

\* C18: a delivery in which no step succeeded surfaces the content on the
\* diagnostic channel and signals the failure to its caller
C18_TotalFailureSignalled ==
  (Deliveries > 0 /\ \A k \in 1..4 : ~(Attempted(k) /\ delivery.caps[k] = "ok")) =>
    /\ delivery.surfaced
    /\ delivery.report = "failed"

----------------------------------------------------------------------------
(* Bulk delivery: ProcessesTabComponent.downloadAllFiles and               *)
(* DownloadsTabComponent.downloadSelectedFiles                             *)

MaxItems == 12
ConfirmThreshold == 10

\* a bulk delivery: how many items it has, whether the user was asked and
\* agreed, how many downloads have begun and how many timeouts are pending
Bulk(op, items, asked, confirmed, opened, queued) ==
  [bulk |-> op, items |-> items, asked |-> asked, confirmed |-> confirmed,
   opened |-> opened, queued |-> queued]

downloadAllFiles(items, answer) ==
  IF items = 0 THEN Bulk("downloadAllFiles", items, FALSE, FALSE, 0, 0)
  ELSE IF items > ConfirmThreshold /\ ~answer
       THEN Bulk("downloadAllFiles", items, TRUE, FALSE, 0, 0)
  ELSE Bulk("downloadAllFiles", items, items > ConfirmThreshold,
            items > ConfirmThreshold /\ answer, 0, items)

\* the next handler of downloadSelectedFiles: one window for the archive, or
\* one window for each item at once
downloadSelectedFiles(items, zip) ==
  IF zip THEN Bulk("downloadSelectedFiles", items, FALSE, FALSE, 1, 0)
  ELSE Bulk("downloadSelectedFiles", items, FALSE, FALSE, items, 0)

BulkStep(b) ==
  /\ delivery' = b
  /\ UNCHANGED <<loggerVars, apiVars, view, jobs>>

DownloadAllFiles ==
  \E items \in 0..MaxItems, answer \in BOOLEAN :
    /\ delivery = Unused
    /\ BulkStep(downloadAllFiles(items, answer))

DownloadSelectedFiles ==
  \E items \in 1..MaxItems, zip \in BOOLEAN :
    /\ delivery = Unused
    /\ BulkStep(downloadSelectedFiles(items, zip))

\* a timeout of downloadAllFiles fires: window.open(item.url, '_blank')
OpenDownload ==
  /\ delivery # Unused
  /\ delivery.queued > 0
  /\ BulkStep([delivery EXCEPT !.opened = @ + 1, !.queued = @ - 1])

BulkNext ==
  \/ DownloadAllFiles
  \/ DownloadSelectedFiles
  \/ OpenDownload

\* bulk deliveries from the processes tab and the downloads tab
SpecBulk == DeliveryInit /\ [][BulkNext]_vars

\* C19: in a bulk delivery of more than 10 items no download begins unless
\* the user confirmed first
C19_LargeBulkNeedsConfirmation ==
  (delivery # Unused /\ delivery.items > ConfirmThreshold /\ delivery.opened > 0)
    => delivery.confirmed

----------------------------------------------------------------------------
(* Correlation of a request with its log entry                             *)

\* the entries getLogsByRequestId gives for the id the last call returned
FoundByReturnedId == getLogsByRequestId(logger, lastCall.returned)

\* C20: right after logRequest(endpoint, method, data) returned an id,
\* getLogsByRequestId of that id gives exactly one entry, a REQUEST with the
\* endpoint and the method of the call
C20_RequestFoundByReturnedId ==
  [][(LogRequest /\ ~lastCall'.threw) =>
       /\ Len(FoundByReturnedId') = 1
       /\ FoundByReturnedId'[1].type = "REQUEST"
       /\ FoundByReturnedId'[1].endpoint = "/train"
       /\ FoundByReturnedId'[1].method = "POST"]_vars

\* the REQUEST entries of logger L that carry the id
RequestsWithId(L, id) ==
  SelectSeq(L.logs, LAMBDA log : log.type = "REQUEST" /\ log.requestId = id)

\* C21: when logRequest creates a REQUEST entry, no REQUEST entry that is
\* already in the log carries the id of the new one
C21_RequestIdUniqueAtCreation ==
  [][(LogRequest /\ ~lastCall'.threw) =>
       RequestsWithId(logger, lastCall'.returned) = <<>>]_vars

----------------------------------------------------------------------------
(* Rotation of the text buffer                                             *)

\* a logging call of this step flushed the text buffer into a file
Rotated == now' # now /\ Len(logger'.files) > Len(logger.files)

LastFile(L) == L.files[Len(L.files)]

\* C22: when a logging call makes the text buffer cross the size threshold
\* the buffer is flushed and left empty, and only crossing the threshold
\* flushes it
C22_RotationEmptiesBuffer ==
  [][Rotated =>
       /\ logger'.textBuffer = <<>>
       /\ TextLen(LastFile(logger')) > MaxBufferSize]_vars

----------------------------------------------------------------------------
(* Construction and failures of the logger                                 *)

\* the persistent store holds no log sequence: no data, or data that is not
\* the JSON of an array
StoreUnusable(L) == L.storedLogs.k \in {"missing", "corrupt", "notArray"}

\* C23: after construction over a store with no data or with corrupted
\* data the in-memory log is the empty sequence
C23_HydrationYieldsEmptyLog ==
  (lastCall.op = "constructor" /\ StoreUnusable(logger)) =>
    (logger.logsIsArray /\ logger.logs = <<>>)

NewestEntry(L) == L.logs[Len(L.logs)]

\* C24: a logging call does not throw, and it appends an entry in which every
\* payload is serializable, a placeholder standing in for one that was not
C24_LoggingDegradesToPlaceholder ==
  [][now' # now =>
       /\ ~lastCall'.threw
       /\ logger'.logs # <<>>
       /\ NewestEntry(logger').timestamp = now
       /\ Serializable(NewestEntry(logger').data)
       /\ Serializable(NewestEntry(logger').error)]_vars

----------------------------------------------------------------------------
(* Polling timers of a view                                                *)

\* C25: whatever the sequence of auto-refresh toggles, at most one polling
\* timer of the view is active
C25_AtMostOnePollingTimer == Cardinality(view.timers) <= 1

\* the polled call c fails in this step
PollFails(c) ==
  /\ view.calls[c].by = "poll"
  /\ view.calls[c].state = "inFlight"
  /\ view'.calls[c].state = "failed"

\* C26: while auto-refresh is on and the view is alive, the failure of a
\* polled call leaves its polling timer running
C26_PollingSurvivesFailure ==
  [][\A c \in DOMAIN view.calls :
       (PollFails(c) /\ view.autoRefresh /\ ~view.destroyed)
         => view.calls[c].timer \in view'.timers]_vars

----------------------------------------------------------------------------
(* Outcome entries of an operation                                         *)

\* the RESPONSE and ERROR entries written under the operation's own id
OutcomeEntries ==
  {i \in DOMAIN trace :
     /\ trace[i].k = "log"
     /\ trace[i].type \in {"RESPONSE", "ERROR"}
     /\ trace[i].requestId = call.requestId}

Delivered(how) == \E d \in Events("deliver") : trace[d].how = how

\* C27: an operation that logged a REQUEST and has completed has written
\* exactly one outcome entry under that id: a RESPONSE when it delivered a
\* result, an ERROR when it delivered an error
C27_ExactlyOneOutcomeEntry ==
  (call.pc = "done" /\ call.requestId # Absent) =>
    /\ Cardinality(OutcomeEntries) = 1
    /\ \A i \in OutcomeEntries :
         trace[i].type = IF Delivered("error") THEN "ERROR" ELSE "RESPONSE"

----------------------------------------------------------------------------
(* Where the formatted lines are                                           *)

\* the places that hold the line written at time t: <<0, i>> for position i
\* of the current buffer, <<f, i>> for position i of the f-th flushed file
PlacesOfLine(L, t) ==
  {<<0, i>> : i \in {j \in DOMAIN L.textBuffer : L.textBuffer[j].ts = t}}
    \cup UNION {{<<f, i>> : i \in {j \in DOMAIN L.files[f] : L.files[f][j].ts = t}} :
                  f \in DOMAIN L.files}

\* C28: every line formatted so far is in exactly one place, the current
\* buffer or one flushed file
C28_EachLineInOnePlace ==
  \A n \in DOMAIN history : Cardinality(PlacesOfLine(logger, history[n])) = 1

----------------------------------------------------------------------------
(* The limit of the in-memory log                                          *)

\* C29: at every moment, right after hydration and right after a lowering of
\* the limit included, the in-memory log holds no more entries than the limit
C29_NeverAboveLimit == Len(logger.logs) <= logger.maxLogs

----------------------------------------------------------------------------
(* Object URLs of the delivery routines                                    *)

\* where a step that throws does so: in `new Blob` or createObjectURL, before
\* there is an object URL, or in what uses the URL afterwards
ThrowPoints == [{1, 3} -> {"create", "use"}]

\* what step k of downloadFileWithFallback leaves behind: no object URL, one
\* that a timeout will revoke, or one that nothing will revoke
StepUrl(b, at, k) ==
  IF k \notin {1, 3} THEN "none"
  ELSE CASE b[k] = "ok" -> "timer"
         [] b[k] = "blocked" -> "leak"
         [] OTHER -> IF at[k] = "use" THEN "leak" ELSE "none"

\* the routine created an object URL: it is live, and revoked later when a
\* timeout was set for it
WithUrl(d, kind) ==
  IF kind = "none" THEN d
  ELSE [d EXCEPT !.urls = @ + 1,
                 !.live = @ \cup {d.urls + 1},
                 !.timers = IF kind = "timer" THEN @ \cup {d.urls + 1} ELSE @]

RECURSIVE urlsOfChain(_, _, _, _)
\* the object URLs of the steps that downloadFileWithFallback runs
urlsOfChain(d, b, at, attempts) ==
  IF attempts = <<>> THEN d
  ELSE urlsOfChain(WithUrl(d, StepUrl(b, at, Head(attempts))), b, at, Tail(attempts))

\* downloadTextBuffer and triggerFileDownload revoke the URL in the same
\* block, after the click, with no try/finally around it
urlOfSingleBlock(d, b, at) ==
  IF b[1] = "throws" /\ at[1] = "use" THEN WithUrl(d, "leak") ELSE d

\* the object URLs so far, and the routine that ran last with what the
\* browser did to it
NoUrls ==
  [urls |-> 0, live |-> {}, timers |-> {}, count |-> 0, by |-> "none",
   caps |-> [k \in 1..4 |-> "ok"]]

UrlStep(d, by, b) ==
  /\ delivery.count < MaxDeliveries
  /\ delivery' = [d EXCEPT !.count = @ + 1, !.by = by, !.caps = b]
  /\ UNCHANGED <<loggerVars, apiVars, view, jobs>>

\* downloadLogs or downloadLogsAsText
DeliverWithFallback ==
  \E b \in Browsers, at \in ThrowPoints :
    UrlStep(urlsOfChain(delivery, b, at, Chain(b, 1)), "downloadFileWithFallback", b)

\* the text buffer is flushed, or a file arrives as an inline payload
DeliverSingleBlock ==
  \E b \in Browsers, at \in ThrowPoints :
    /\ \A k \in 2..4 : b[k] = "ok"
    /\ UrlStep(urlOfSingleBlock(delivery, b, at), "downloadTextBuffer", b)

\* a timeout set by a step fires: URL.revokeObjectURL(url)
RevokeTimeout ==
  \E u \in delivery.timers :
    /\ delivery' = [delivery EXCEPT !.live = @ \ {u}, !.timers = @ \ {u}]
    /\ UNCHANGED <<loggerVars, apiVars, view, jobs>>

UrlInit ==
  /\ delivery = NoUrls
  /\ view = Unused
  /\ jobs = <<>>
  /\ env = DevEnvironment
  /\ call = Idle
  /\ trace = <<>>
  /\ process \in {pr \in Processes : pr.status = "running"}
  /\ logger = NewLogger(StoredMissing, <<>>)
  /\ browser = IOHealthy
  /\ now = 0
  /\ horizon = 0
  /\ payload = PlainLeaf
  /\ errArg = ErrorObj("boom")
  /\ lastCall = Called("constructor", FALSE, Absent)
  /\ history = <<>>
  /\ sinceLimit = 0

UrlNext ==
  \/ DeliverWithFallback
  \/ DeliverSingleBlock
  \/ RevokeTimeout

\* the object URLs of deliveries; a timeout that was set fires
SpecUrlsFair == UrlInit /\ [][UrlNext]_vars /\ WF_vars(RevokeTimeout)

UrlIds == 1..(2 * MaxDeliveries)

\* C30: every object URL that a delivery created is revoked at some later
\* time, whether its step succeeded or failed
C30_ObjectUrlsEventuallyRevoked ==
  \A u \in UrlIds : (u \in delivery.live) ~> (u \notin delivery.live)

============================================================================
